---- MODULE Spec2Model ----
(***************************************************************************)
(* Mihran's Tetris Mania (App.jsx): the game core and the React component  *)
(* that drives it, as a state machine.                                     *)
(*                                                                         *)
(* React state (board, piece, score, high, gameOver) is the state of the   *)
(* last render.  A setX call does not change it: it appends to the hook's  *)
(* update queue (qBoard, qPiece, ...), and Render applies the queues,      *)
(* commits, and runs the effects (which refresh boardRef, pieceRef and     *)
(* overRef and award the lightning bonus).  Keyboard, touch and click      *)
(* handlers are discrete events: React renders synchronously when such a   *)
(* handler returns.  Updates made by the requestAnimationFrame loop and by *)
(* the setInterval hold timer are batched and rendered later, so a         *)
(* handler may run while they are pending and read refs of the last render.*)
(*                                                                         *)
(* Rows, columns and matrix indices are 0-based as in the source.          *)
(***************************************************************************)
EXTENDS Integers, Sequences, FiniteSets, TLC

COLS == 10
ROWS == 20

ALL_KEYS == {"I", "J", "L", "O", "S", "T", "Z"}
LIGHTNING == "lightning"
\* one representative of the twelve NON_LIGHTNING_ICONS
STAR == "star"
NOICON == "null"

\* a null board cell
NULL == [color |-> "null", icon |-> NOICON]

\* a JS array literal as a 0-based function
Arr(s) == [i \in 0..(Len(s) - 1) |-> s[i + 1]]
Mat(s) == [r \in 0..(Len(s) - 1) |-> Arr(s[r + 1])]
\* a 0-based array as a sequence
ToSeq(a) == [i \in 1..Cardinality(DOMAIN a) |-> a[i - 1]]
length(a) == Cardinality(DOMAIN a)

SHAPES ==
  [ I |-> [color |-> "#00BCD4", matrix |-> Mat(<< <<0,0,0,0>>, <<1,1,1,1>>, <<0,0,0,0>>, <<0,0,0,0>> >>)],
    J |-> [color |-> "#3F51B5", matrix |-> Mat(<< <<1,0,0>>, <<1,1,1>>, <<0,0,0>> >>)],
    L |-> [color |-> "#FF9800", matrix |-> Mat(<< <<0,0,1>>, <<1,1,1>>, <<0,0,0>> >>)],
    O |-> [color |-> "#FFC107", matrix |-> Mat(<< <<1,1>>, <<1,1>> >>)],
    S |-> [color |-> "#4CAF50", matrix |-> Mat(<< <<0,1,1>>, <<1,1,0>>, <<0,0,0>> >>)],
    T |-> [color |-> "#9C27B0", matrix |-> Mat(<< <<0,1,0>>, <<1,1,1>>, <<0,0,0>> >>)],
    Z |-> [color |-> "#F44336", matrix |-> Mat(<< <<1,1,0>>, <<0,1,1>>, <<0,0,0>> >>)] ]

emptyRow == [c \in 0..(COLS - 1) |-> NULL]
emptyBoard == [r \in 0..(ROWS - 1) |-> emptyRow]

\* a faulty variant of rotateMatrixCW: the turn is anticlockwise
rotateMatrixCCW(m) ==
  LET rows == length(m)
      cols == length(m[0])
  IN  [i \in 0..(cols - 1) |-> [j \in 0..(rows - 1) |-> m[j][cols - 1 - i]]]

rotateMatrixCW(m) ==
  LET rows == length(m)
      cols == length(m[0])
  IN  [i \in 0..(cols - 1) |-> [j \in 0..(rows - 1) |-> m[rows - 1 - j][i]]]

\* a faulty variant of rotateIconsCW: the icons are turned anticlockwise
rotateIconsCCW(m) ==
  LET rows == length(m)
      cols == length(m[0])
  IN  [i \in 0..(cols - 1) |-> [j \in 0..(rows - 1) |-> m[j][cols - 1 - i]]]

rotateIconsCW(m) ==
  LET rows == length(m)
      cols == length(m[0])
  IN  [i \in 0..(cols - 1) |-> [j \in 0..(rows - 1) |-> m[rows - 1 - j][i]]]

\* Math.floor((COLS - w) / 2)
spawnCol(matrix) == (COLS - length(matrix[0])) \div 2

\* the number of set cells before (r, c) in row-major order
cellIndex(matrix, r, c) ==
  Cardinality({rc \in (DOMAIN matrix) \X (DOMAIN matrix[0]) :
                 /\ matrix[rc[1]][rc[2]] # 0
                 /\ rc[1] < r \/ (rc[1] = r /\ rc[2] < c)})

\* randomPiece() with its random draws as parameters: key is the shape drawn
\* and lit the set of set-cell indices for which randIcon() drew LIGHTNING;
\* seq is PIECE_SEQ before the call.
randomPiece(seq, key, lit) ==
  LET shape == SHAPES[key]
      matrix == shape.matrix
      icons == [r \in DOMAIN matrix |-> [c \in DOMAIN matrix[r] |->
                 IF matrix[r][c] # 0
                 THEN (IF cellIndex(matrix, r, c) \in lit THEN LIGHTNING ELSE STAR)
                 ELSE NOICON]]
  IN  [id |-> seq + 1, key |-> key, color |-> shape.color, matrix |-> matrix,
       icons |-> icons, row |-> 0, col |-> spawnCol(shape.matrix)]

\* a faulty variant of collides: the override matrix is ignored
collidesIgnoresMat(b, p, offR, offC, mat) ==
  \E r \in DOMAIN p.matrix : \E c \in DOMAIN p.matrix[0] :
    /\ p.matrix[r][c] # 0
    /\ LET nr == p.row + r + offR
           nc == p.col + c + offC
       IN  \/ nr < 0 \/ nr >= ROWS \/ nc < 0 \/ nc >= COLS
           \/ b[nr][nc] # NULL

\* mat = <<>> stands for the default mat = null
collides(b, p, offR, offC, mat) ==
  LET m == IF mat = <<>> THEN p.matrix ELSE mat
  IN  \E r \in DOMAIN m : \E c \in DOMAIN m[0] :
        /\ m[r][c] # 0
        /\ LET nr == p.row + r + offR
               nc == p.col + c + offC
           IN  \/ nr < 0 \/ nr >= ROWS \/ nc < 0 \/ nc >= COLS
               \/ b[nr][nc] # NULL

\* the loops of merge from matrix cell (r, c) on, newBoard being the copy
RECURSIVE mergeFrom(_, _, _, _)
mergeFrom(newBoard, p, r, c) ==
  LET m == p.matrix
      br == p.row + r
      bc == p.col + c
  IN  IF r >= length(m) THEN newBoard
      ELSE IF c >= length(m[0]) THEN mergeFrom(newBoard, p, r + 1, 0)
      ELSE IF m[r][c] # 0 /\ br >= 0 /\ br < ROWS /\ bc >= 0 /\ bc < COLS
           THEN mergeFrom([newBoard EXCEPT ![br][bc] =
                             [color |-> p.color, icon |-> p.icons[r][c]]],
                          p, r, c + 1)
           ELSE mergeFrom(newBoard, p, r, c + 1)

merge(b, p) == mergeFrom(b, p, 0, 0)

\* merge on the heap of row arrays.  The rows of the board passed in are the
\* objects 0..ROWS-1; board and newBoard list the row objects of the two
\* arrays.
\* a faulty variant of copyRows: newBoard shares the rows of board
shareRows(b) ==
  [heap |-> [ref \in 0..(ROWS - 1) |-> b[ref]],
   board |-> [r \in 0..(ROWS - 1) |-> r],
   newBoard |-> [r \in 0..(ROWS - 1) |-> r]]

\* const newBoard = board.map(row => row.slice()): the copies are the
\* objects ROWS..2*ROWS-1
copyRows(b) ==
  [heap |-> [ref \in 0..(2 * ROWS - 1) |-> b[ref % ROWS]],
   board |-> [r \in 0..(ROWS - 1) |-> r],
   newBoard |-> [r \in 0..(ROWS - 1) |-> ROWS + r]]

RECURSIVE mergeLoops(_, _, _, _)
mergeLoops(st, p, r, c) ==
  LET m == p.matrix
      br == p.row + r
      bc == p.col + c
  IN  IF r >= length(m) THEN st
      ELSE IF c >= length(m[0]) THEN mergeLoops(st, p, r + 1, 0)
      ELSE IF m[r][c] # 0 /\ br >= 0 /\ br < ROWS /\ bc >= 0 /\ bc < COLS
           THEN mergeLoops([st EXCEPT !.heap[st.newBoard[br]][bc] =
                              [color |-> p.color, icon |-> p.icons[r][c]]],
                           p, r, c + 1)
           ELSE mergeLoops(st, p, r, c + 1)

\* the array returned and the array passed in, as they are after the call
mergeOnHeap(b, p) ==
  LET st == mergeLoops(copyRows(b), p, 0, 0)
  IN  [out |-> [r \in 0..(ROWS - 1) |-> st.heap[st.newBoard[r]]],
       board |-> [r \in 0..(ROWS - 1) |-> st.heap[st.board[r]]]]

\* a faulty variant of someEmpty: only the first cell of the row is looked at
someEmptyFirstCell(row) == row[0] = NULL

someEmpty(row) == \E c \in DOMAIN row : row[c] = NULL

\* a faulty variant of clearLines: the full rows are counted and kept
clearLinesKeepsRows(b) ==
  [board |-> b, cleared |-> ROWS - Len(SelectSeq(ToSeq(b), someEmpty))]

\* a faulty variant of clearLines: the empty rows are added below
clearLinesPadBelow(b) ==
  LET kept == SelectSeq(ToSeq(b), someEmpty)
      cleared == ROWS - Len(kept)
      pad == [i \in 1..cleared |-> emptyRow]
  IN  [board |-> Arr(kept \o pad), cleared |-> cleared]

\* a faulty variant of clearLines: two points per removed row
clearLinesDoubled(b) ==
  LET kept == SelectSeq(ToSeq(b), someEmpty)
      cleared == ROWS - Len(kept)
      pad == [i \in 1..cleared |-> emptyRow]
  IN  [board |-> Arr(pad \o kept), cleared |-> 2 * cleared]

clearLines(b) ==
  LET kept == SelectSeq(ToSeq(b), someEmpty)
      cleared == ROWS - Len(kept)
      pad == [i \in 1..cleared |-> emptyRow]
  IN  [board |-> Arr(pad \o kept), cleared |-> cleared]

hasLightningInIcons(icons) ==
  \E r \in DOMAIN icons : \E c \in DOMAIN icons[0] : icons[r][c] = LIGHTNING

(***************************************************************************)
(* The component's state.                                                  *)
(***************************************************************************)
VARIABLES
  board, piece, score, high, gameOver,    \* useState: the values of the last render
  qBoard, qPiece, qScore, qHigh, qOver,   \* the hooks' queued updates
  boardRef, pieceRef, overRef,            \* useRef, refreshed by effects
  softRef, awardedRef, holdTimer,
  PIECE_SEQ,                              \* module-level piece counter
  stored,                                 \* localStorage["tetris_highscore"]
  mountHigh,                              \* high of the first render (the loop's closure)
  batch,                                  \* timers whose updates are not yet rendered
  steps,                                  \* handler runs so far (bounded)
  mounted,                                \* whether the component is mounted
  clock,                                  \* the frame loop's acc, and the frame history
  pure,                                   \* the last call of a pure function (see PureSpec)
  taps,                                   \* Date.now(), lastTap.current and the taps so far
  lastOp,                                 \* history: what the last handler did
  activated, credited                     \* history: per id of a piece that became active
                                          \* whether it shows lightning; bonus applied per id

vars == << board, piece, score, high, gameOver, qBoard, qPiece, qScore, qHigh,
           qOver, boardRef, pieceRef, overRef, softRef, awardedRef, holdTimer,
           PIECE_SEQ, stored, mountHigh, batch, steps, mounted, clock, pure,
           taps, lastOp, activated, credited >>

queues == << qBoard, qPiece, qScore, qHigh, qOver >>
committed == << board, piece, score, high, gameOver >>
refs == << boardRef, pieceRef, overRef >>
history == << activated, credited >>
\* what the game's handlers leave alone while the component is mounted
aux == << mounted, clock, pure, taps >>
\* what lastOp may be: a column move, a rotation, a fall by one row, a lock
\* by a soft drop or a tick, a hard drop (which locks), a restart, a render
\* of queued updates, a handler that only touches refs and timers
Ops == {"none", "move", "rotate", "fall", "lock", "hardDrop", "restart", "render", "ref",
        "unmount"}

\* ---- bounds of the model
MaxSteps == 3

\* the shapes Math.random() may draw for the first piece and for later pieces
FirstKinds == {"I", "O", "T", "L"}
NextKinds == {"I", "T"}
\* the cells for which randIcon() may draw LIGHTNING: none, or the first set cell
Lits == {{}, {0}}
\* the best score loaded at mount, and what the session may have added to it
MountHighs == {0}
EarlierGains == {0, 2}

Last(s) == s[Len(s)]

\* ---- queued updates
\* setPiece(value) / setPiece(prev => ...): a value replaces whatever is queued
setValue(p) == [op |-> "set", piece |-> p]
colUpdater(d) == [op |-> "col", d |-> d]
rowUpdater == [op |-> "row", d |-> 1]
rotUpdater(m, ic, k) == [op |-> "rot", matrix |-> m, icons |-> ic, d |-> k]

\* a faulty variant of applyPieceUpdate: a column move lifts the piece a row
applyPieceUpdateLifts(prev, u) ==
  CASE u.op = "set" -> u.piece
    [] u.op = "col" -> [prev EXCEPT !.col = prev.col + u.d, !.row = prev.row - 1]
    [] u.op = "row" -> [prev EXCEPT !.row = prev.row + 1]
    [] u.op = "rot" -> [prev EXCEPT !.matrix = u.matrix, !.icons = u.icons,
                                    !.col = prev.col + u.d]

applyPieceUpdate(prev, u) ==
  CASE u.op = "set" -> u.piece
    [] u.op = "col" -> [prev EXCEPT !.col = prev.col + u.d]
    [] u.op = "row" -> [prev EXCEPT !.row = prev.row + 1]
    [] u.op = "rot" -> [prev EXCEPT !.matrix = u.matrix, !.icons = u.icons,
                                    !.col = prev.col + u.d]

RECURSIVE applyPieceQueue(_, _)
applyPieceQueue(q, prev) ==
  IF q = <<>> THEN prev
  ELSE applyPieceQueue(Tail(q), applyPieceUpdate(prev, Head(q)))

\* setScore(s => { ns = s + n; updateHighScore(ns); return ns }) with the high
\* its updateHighScore closes over; bonus is the piece id of a lightning award
\* (0 for a line clear).  setScore(0) is op "set".
addUpdater(n, closureHigh, bonus) ==
  [op |-> "add", n |-> n, high |-> closureHigh, bonus |-> bonus]
zeroScore == [op |-> "set", n |-> 0, high |-> 0, bonus |-> 0]

\* updateHighScore(nextScore) under a closure whose high is closureHigh:
\* the values it passes to setHigh and to localStorage.setItem
updateHighScore(nextScore, closureHigh) ==
  IF nextScore > closureHigh THEN << nextScore >> ELSE << >>

\* the score queue applied to s: the new score, the setHigh calls the updaters
\* made, in order, and the bonus applied per piece id
RECURSIVE applyScoreQueue(_, _, _, _)
applyScoreQueue(q, s, fired, cred) ==
  IF q = <<>> THEN [score |-> s, fired |-> fired, credited |-> cred]
  ELSE LET u == Head(q)
           ns == s + u.n
       IN  IF u.op = "set"
           THEN applyScoreQueue(Tail(q), u.n, fired, cred)
           ELSE applyScoreQueue(Tail(q), ns,
                  fired \o updateHighScore(ns, u.high),
                  IF u.bonus = 0 THEN cred
                  ELSE IF u.bonus \in DOMAIN cred
                       THEN [cred EXCEPT ![u.bonus] = @ + u.n]
                       ELSE cred @@ (u.bonus :> u.n))

(***************************************************************************)
(* What a handler changes when it runs: the update queues (a setX call     *)
(* appends to one), PIECE_SEQ, localStorage and awardedRef.  The helpers   *)
(* below take this part of the state as h and give it back as the handler  *)
(* leaves it (op names what it did); the random draws of randomPiece() are the parameters key and *)
(* lit.  cur is that part of the current state.                            *)
(***************************************************************************)
cur ==
  [ qBoard |-> qBoard, qPiece |-> qPiece, qScore |-> qScore, qHigh |-> qHigh,
    qOver |-> qOver, PIECE_SEQ |-> PIECE_SEQ, stored |-> stored,
    awardedRef |-> awardedRef, op |-> lastOp ]

canMove(dr, dc) == ~collides(boardRef, pieceRef, dr, dc, <<>>)

\* a faulty variant of moveLeft: the shifted position is not tested
moveLeftUnchecked(h) ==
  [h EXCEPT !.qPiece = Append(@, colUpdater(-1)), !.op = "move"]

moveLeft(h) ==
  IF canMove(0, -1)
  THEN [h EXCEPT !.qPiece = Append(@, colUpdater(-1)), !.op = "move"] ELSE h

moveRight(h) ==
  IF canMove(0, 1)
  THEN [h EXCEPT !.qPiece = Append(@, colUpdater(1)), !.op = "move"] ELSE h

\* a faulty variant of lockAndSpawn: the blocked spawn is not tested
lockAndSpawnNoTopOut(h, currBoard, currPiece, cScore, cHigh, key, lit) ==
  LET cl == clearLines(merge(currBoard, currPiece))
      h1 == IF cl.cleared # 0
            THEN [h EXCEPT !.qScore = Append(@, addUpdater(cl.cleared, cHigh, 0))]
            ELSE h
      next == randomPiece(h.PIECE_SEQ, key, lit)
  IN  [h1 EXCEPT !.PIECE_SEQ = @ + 1,
                 !.op = "lock",
                 !.qBoard = << cl.board >>,
                 !.qPiece = << setValue(next) >>]

\* Lock current piece and spawn a new one; cScore and cHigh are the score and
\* high of the render whose lockAndSpawn is called.
lockAndSpawn(h, currBoard, currPiece, cScore, cHigh, key, lit) ==
  LET merged == merge(currBoard, currPiece)
      cl == clearLines(merged)
      h1 == IF cl.cleared # 0
            THEN [h EXCEPT !.qScore = Append(@, addUpdater(cl.cleared, cHigh, 0))]
            ELSE h
      next == randomPiece(h.PIECE_SEQ, key, lit)
      h2 == [h1 EXCEPT !.PIECE_SEQ = @ + 1, !.op = "lock"]
      over == updateHighScore(cScore, cHigh)
  IN  IF collides(cl.board, next, 0, 0, <<>>)
      THEN [h2 EXCEPT !.qHigh = @ \o over,
                      !.stored = IF over = <<>> THEN @ ELSE Last(over),
                      !.qBoard = << cl.board >>,
                      !.qOver = << TRUE >>]
      ELSE [h2 EXCEPT !.qBoard = << cl.board >>,
                      !.qPiece = << setValue(next) >>]

\* a faulty variant of softDropStep: the piece is advanced before it is locked
softDropStepLocksLower(h, cScore, cHigh, key, lit) ==
  LET b == boardRef
      p == pieceRef
  IN  IF ~collides(b, p, 1, 0, <<>>)
      THEN [h EXCEPT !.qPiece = Append(@, rowUpdater), !.op = "fall"]
      ELSE lockAndSpawn(h, b, [p EXCEPT !.row = @ + 1], cScore, cHigh, key, lit)

softDropStep(h, cScore, cHigh, key, lit) ==
  LET b == boardRef
      p == pieceRef
  IN  IF ~collides(b, p, 1, 0, <<>>)
      THEN [h EXCEPT !.qPiece = Append(@, rowUpdater), !.op = "fall"]
      ELSE lockAndSpawn(h, b, p, cScore, cHigh, key, lit)

\* a faulty variant of kicks: left before right
kicksLeftFirst == << 0, -1, 1, -2, 2 >>

kicks == << 0, 1, -1, 2, -2 >>

\* the index in kicks of the first offset at which rotated does not collide,
\* from index i on; 0 when the loop ends without a break
RECURSIVE firstKick(_, _, _, _)
firstKick(b, p, rotated, i) ==
  IF i > Len(kicks) THEN 0
  ELSE IF ~collides(b, p, 0, kicks[i], rotated) THEN i
  ELSE firstKick(b, p, rotated, i + 1)

rotateAction(h) ==
  LET b == boardRef
      p == pieceRef
      rotated == rotateMatrixCW(p.matrix)
      rotatedIcons == rotateIconsCW(p.icons)
      i == firstKick(b, p, rotated, 1)
  IN  IF p.key = "O" THEN h
      ELSE IF i = 0 THEN h
      ELSE [h EXCEPT !.qPiece = Append(@, rotUpdater(rotated, rotatedIcons, kicks[i])),
                     !.op = "rotate"]

\* let d = 0; while (!collides(b, p, d + 1, 0)) d++;
RECURSIVE dropDistance(_, _, _)
dropDistance(b, p, d) ==
  IF ~collides(b, p, d + 1, 0, <<>>) THEN dropDistance(b, p, d + 1) ELSE d

hardDrop(h, cScore, cHigh, key, lit) ==
  LET b == boardRef
      p == pieceRef
      d == dropDistance(b, p, 0)
      landed == [p EXCEPT !.row = p.row + d]
  IN  [lockAndSpawn(h, b, landed, cScore, cHigh, key, lit) EXCEPT !.op = "hardDrop"]

\* a faulty variant of resetGame: the score is not set back
resetGameKeepsScore(h, key, lit) ==
  LET first == randomPiece(h.PIECE_SEQ, key, lit)
  IN  [h EXCEPT !.PIECE_SEQ = @ + 1,
                !.qBoard = << emptyBoard >>,
                !.qPiece = << setValue(first) >>,
                !.qOver = << FALSE >>,
                !.awardedRef = -1,
                !.op = "restart"]

\* a faulty variant of resetGame: the board is not cleared
resetGameKeepsBoard(h, key, lit) ==
  LET first == randomPiece(h.PIECE_SEQ, key, lit)
  IN  [h EXCEPT !.PIECE_SEQ = @ + 1,
                !.qPiece = << setValue(first) >>,
                !.qScore = Append(@, zeroScore),
                !.qOver = << FALSE >>,
                !.awardedRef = -1,
                !.op = "restart"]

resetGame(h, key, lit) ==
  LET first == randomPiece(h.PIECE_SEQ, key, lit)
  IN  [h EXCEPT !.PIECE_SEQ = @ + 1,
                !.qBoard = << emptyBoard >>,
                !.qPiece = << setValue(first) >>,
                !.qScore = Append(@, zeroScore),
                !.qOver = << FALSE >>,
                !.awardedRef = -1,
                !.op = "restart"]

\* whether some cell of p's icon matrix is the lightning icon (for the history)
litPiece(p) ==
  LIGHTNING \in {p.icons[r][c] : r \in DOMAIN p.icons, c \in DOMAIN p.icons[0]}

\* a faulty variant of awardEffect: no dependency list and no awardedRef guard
awardEffectUnguarded(p, prevId, awarded) ==
  [bonus |-> hasLightningInIcons(p.icons), awardedRef |-> p.id]

\* useEffect(() => {...}, [piece?.id]) after a render that shows p, the render
\* before having shown the piece prevId: whether it calls setScore(s => s + 5),
\* and awardedRef.current as it leaves it
awardEffect(p, prevId, awarded) ==
  IF p.id = prevId \/ p.id = awarded
  THEN [bonus |-> FALSE, awardedRef |-> awarded]
  ELSE [bonus |-> hasLightningInIcons(p.icons), awardedRef |-> p.id]

(***************************************************************************)
(* A render from h: the queued updates are applied (the score updaters run *)
(* here and call updateHighScore), App() runs (its useState(randomPiece()) *)
(* argument draws a piece id), the result is committed and the effects run.*)
(***************************************************************************)
Commit(h) ==
  LET newBoard == IF h.qBoard = <<>> THEN board ELSE Last(h.qBoard)
      newPiece == applyPieceQueue(h.qPiece, piece)
      sc == applyScoreQueue(h.qScore, score, <<>>, credited)
      highs == h.qHigh \o sc.fired
      newHigh == IF highs = <<>> THEN high ELSE Last(highs)
      newOver == IF h.qOver = <<>> THEN gameOver ELSE Last(h.qOver)
      eff == awardEffect(newPiece, piece.id, h.awardedRef)
  IN  /\ board' = newBoard
      /\ piece' = newPiece
      /\ score' = sc.score
      /\ high' = newHigh
      /\ gameOver' = newOver
      /\ stored' = IF sc.fired = <<>> THEN h.stored ELSE Last(sc.fired)
      /\ PIECE_SEQ' = h.PIECE_SEQ + 1
      /\ boardRef' = newBoard
      /\ pieceRef' = newPiece
      /\ overRef' = newOver
      /\ qScore' = IF eff.bonus
                   THEN << addUpdater(5, newHigh, newPiece.id) >>
                   ELSE << >>
      /\ awardedRef' = eff.awardedRef
      /\ qBoard' = << >> /\ qPiece' = << >> /\ qHigh' = << >> /\ qOver' = << >>
      /\ batch' = {}
      /\ lastOp' = h.op
      /\ credited' = sc.credited
      /\ activated' = IF newPiece.id \in DOMAIN activated
                      THEN activated
                      ELSE activated @@ (newPiece.id :> litPiece(newPiece))

\* the updates of a timer callback stay queued until React renders
Defer(h) ==
  /\ qBoard' = h.qBoard /\ qPiece' = h.qPiece /\ qScore' = h.qScore
  /\ qHigh' = h.qHigh /\ qOver' = h.qOver
  /\ PIECE_SEQ' = h.PIECE_SEQ /\ stored' = h.stored /\ awardedRef' = h.awardedRef
  /\ lastOp' = h.op
  /\ UNCHANGED << committed, refs, history >>

\* a state update on an unmounted component is ignored: of what the callback
\* did, the module-level counter and localStorage remain
Dropped(h) ==
  /\ PIECE_SEQ' = h.PIECE_SEQ /\ stored' = h.stored /\ awardedRef' = h.awardedRef
  /\ lastOp' = h.op
  /\ UNCHANGED << committed, queues, refs, history >>

(***************************************************************************)
(* Event sources.  Key, touch and click handlers are discrete events: React*)
(* renders synchronously when the handler returns.  The frame loop and the *)
(* hold timer each run at most once between two renders.                   *)
(***************************************************************************)
Draws == NextKinds \X Lits
\* the draws a handler makes, when it calls randomPiece() at all
drawsIf(spawns) == IF spawns THEN Draws ELSE {CHOOSE d \in Draws : TRUE}
atRest == collides(boardRef, pieceRef, 1, 0, <<>>)

Keys == {"ArrowLeft", "ArrowRight", "ArrowDown", "ArrowUp", "Space", "r"}

keyDown(h, key, d) ==
  IF key = "r" THEN resetGame(h, d[1], d[2])
  ELSE IF gameOver THEN h
  ELSE CASE key = "ArrowLeft" -> moveLeft(h)
         [] key = "ArrowRight" -> moveRight(h)
         [] key = "ArrowDown" -> softDropStep(h, score, high, d[1], d[2])
         [] key = "ArrowUp" -> rotateAction(h)
         [] key = "Space" -> hardDrop(h, score, high, d[1], d[2])

\* onKeyDown
handleKey(key) ==
  /\ mounted
  /\ steps < MaxSteps
  /\ \E d \in drawsIf(key \in {"r", "Space"} \/ (key = "ArrowDown" /\ atRest)) :
       LET h == keyDown(cur, key, d)
       IN  /\ h # cur
           /\ Commit(h)
  /\ softRef' = IF key = "ArrowDown" /\ ~gameOver THEN TRUE ELSE softRef
  /\ steps' = steps + 1
  /\ UNCHANGED << holdTimer, mountHigh, aux >>

\* onKeyUp: if (e.key === 'ArrowDown') softRef.current = false
handleKeyUp ==
  /\ mounted
  /\ steps < MaxSteps
  /\ softRef
  /\ softRef' = FALSE
  /\ steps' = steps + 1
  /\ lastOp' = "ref"
  /\ UNCHANGED << committed, queues, refs, awardedRef, holdTimer, PIECE_SEQ,
                  stored, mountHigh, batch, history, aux >>

\* The gesture onTouchEnd makes of a release: a tap (movement below SWIPE on
\* both axes) later than TAP_WINDOW after the last tap, a tap within it, or a
\* swipe along the dominant axis.
Gestures == {"tap", "doubleTap", "swipeLeft", "swipeRight", "swipeDown"}

touchEnd(h, g, d) ==
  IF gameOver THEN h
  ELSE CASE g = "doubleTap" -> hardDrop(h, score, high, d[1], d[2])
         [] g = "tap" -> rotateAction(h)
         [] g = "swipeRight" -> moveRight(h)
         [] g = "swipeLeft" -> moveLeft(h)
         [] g = "swipeDown" -> softDropStep(h, score, high, d[1], d[2])

onTouchEnd(g) ==
  /\ mounted
  /\ steps < MaxSteps
  /\ \E d \in drawsIf(g = "doubleTap" \/ (g = "swipeDown" /\ atRest)) :
       LET h == touchEnd(cur, g, d)
       IN  /\ h # cur
           /\ Commit(h)
  /\ steps' = steps + 1
  /\ UNCHANGED << softRef, holdTimer, mountHigh, aux >>

\* the on-screen buttons' onClick
Buttons == {"left", "rotate", "right", "drop"}

click(h, btn, d) ==
  CASE btn = "left" -> moveLeft(h)
    [] btn = "rotate" -> rotateAction(h)
    [] btn = "right" -> moveRight(h)
    [] btn = "drop" -> hardDrop(h, score, high, d[1], d[2])

onClick(btn) ==
  /\ mounted
  /\ steps < MaxSteps
  /\ \E d \in drawsIf(btn = "drop") :
       LET h == click(cur, btn, d)
       IN  /\ h # cur
           /\ Commit(h)
  /\ steps' = steps + 1
  /\ UNCHANGED << softRef, holdTimer, mountHigh, aux >>

\* holdTimer.current: null, or the interval whose callback closes over the
\* softDropStep (and so the score and high) of the render of the press
noTimer == [on |-> FALSE, score |-> 0, high |-> 0]

startHoldDown ==
  /\ mounted
  /\ steps < MaxSteps
  /\ ~(softRef /\ holdTimer.on)
  /\ softRef' = TRUE
  /\ holdTimer' = IF ~holdTimer.on
                  THEN [on |-> TRUE, score |-> score, high |-> high]
                  ELSE holdTimer
  /\ steps' = steps + 1
  /\ lastOp' = "ref"
  /\ UNCHANGED << committed, queues, refs, awardedRef, PIECE_SEQ, stored,
                  mountHigh, batch, history, aux >>

stopHoldDown ==
  /\ mounted
  /\ steps < MaxSteps
  /\ ~(~softRef /\ ~holdTimer.on)
  /\ softRef' = FALSE
  /\ holdTimer' = noTimer
  /\ steps' = steps + 1
  /\ lastOp' = "ref"
  /\ UNCHANGED << committed, queues, refs, awardedRef, PIECE_SEQ, stored,
                  mountHigh, batch, history, aux >>

\* the setInterval callback: if (!overRef.current) softDropStep().  Nothing
\* but stopHoldDown clears the interval, so it also fires after an unmount.
holdTick ==
  /\ steps < MaxSteps
  /\ mounted => "hold" \notin batch
  /\ holdTimer.on
  /\ ~overRef
  /\ \E d \in drawsIf(atRest) :
       LET h == softDropStep(cur, holdTimer.score, holdTimer.high, d[1], d[2])
       IN  IF mounted THEN Defer(h) ELSE Dropped(h)
  /\ batch' = batch \cup {"hold"}
  /\ steps' = steps + 1
  /\ UNCHANGED << softRef, holdTimer, mountHigh, aux >>

\* a frame of the requestAnimationFrame loop in which acc >= interval; the
\* loop was created by the first render, whose score is 0 and high mountHigh
loop ==
  /\ mounted
  /\ steps < MaxSteps
  /\ "tick" \notin batch
  /\ ~overRef
  /\ \E d \in drawsIf(atRest) :
       Defer(IF ~collides(boardRef, pieceRef, 1, 0, <<>>)
             THEN [cur EXCEPT !.qPiece = Append(@, rowUpdater), !.op = "fall"]
             ELSE lockAndSpawn(cur, boardRef, pieceRef, 0, mountHigh, d[1], d[2]))
  /\ batch' = batch \cup {"tick"}
  /\ steps' = steps + 1
  /\ UNCHANGED << softRef, holdTimer, mountHigh, aux >>

\* React renders the queued updates
Pending ==
  qBoard # <<>> \/ qPiece # <<>> \/ qScore # <<>> \/ qHigh # <<>> \/ qOver # <<>>

Render ==
  /\ mounted
  /\ Pending
  /\ Commit([cur EXCEPT !.op = "render"])
  /\ UNCHANGED << softRef, holdTimer, mountHigh, steps, aux >>

\* the frame loop's let last = 0, acc = 0, with the history of its frames:
\* how many ran, the last one's elapsed time and whether it stepped
noClock == [last |-> 0, acc |-> 0, frames |-> 0, dt |-> 0, stepped |-> FALSE]
\* no pure function has been called
noCall == [fn |-> "none"]
\* Date.now() at the first render, and no tap so far: lastTap = useRef(0);
\* times and intents are the history of the taps handled
StartNow == 1000
noTaps ==
  [now |-> StartNow, lastTap |-> 0, releases |-> 0, move |-> << 0, 0 >>,
   times |-> <<>>, intents |-> <<>>]

(***************************************************************************)
(* Initial states: the first render of a session, or a later moment of a   *)
(* game in which some pieces have been locked without clearing a row.      *)
(***************************************************************************)
\* a piece of shape key moved to column col
shapeAt(key, col) == [randomPiece(0, key, {}) EXCEPT !.id = 0, !.col = col]

\* the board after p has been hard-dropped and locked on b
lockedOn(b, p) ==
  clearLines(merge(b, [p EXCEPT !.row = p.row + dropDistance(b, p, 0)])).board

\* an L dropped at the left wall and a J at the right wall:
\* row 19 lacks columns 3..6
NearLineBoard == lockedOn(lockedOn(emptyBoard, shapeAt("L", 0)), shapeAt("J", 7))

\* nine squares dropped at the spawn column one after another: every drop
\* rests on the one before and fills no row, so the stack reaches row 2
TowerBoard ==
  [r \in 0..(ROWS - 1) |-> [c \in 0..(COLS - 1) |->
     IF r >= ROWS - 18 /\ c \in {4, 5}
     THEN [color |-> SHAPES["O"].color, icon |-> STAR] ELSE NULL]]

Played == { [board |-> emptyBoard, locks |-> 0],
            [board |-> NearLineBoard, locks |-> 2],
            [board |-> TowerBoard, locks |-> 9] }

\* how far gravity may have taken the first piece: not at all, to the row
\* above its resting row, or to its resting row
Falls(b, p) ==
  LET d == dropDistance(b, p, 0) IN {0} \cup ({d - 1, d} \cap (1..ROWS))

Init ==
  \E pl \in Played : \E key \in FirstKinds : \E lit \in Lits :
  \E mh \in MountHighs : \E gain \in EarlierGains :
    LET id == 2 * pl.locks + 1
        spawned == randomPiece(id - 1, key, lit)
    IN  \E fall \in Falls(pl.board, spawned) :
          LET p == [spawned EXCEPT !.row = fall]
              fresh == pl.locks = 0 /\ fall = 0
          IN  /\ fresh => gain = 0
              /\ fall # 0 => lit = {}
              /\ board = pl.board /\ boardRef = pl.board
              /\ piece = p /\ pieceRef = p
              /\ score = 0
              /\ mountHigh = mh
              /\ high = mh + gain
              /\ stored = mh + gain
              /\ gameOver = FALSE /\ overRef = FALSE
              /\ softRef = FALSE
              /\ holdTimer = noTimer
              /\ awardedRef = id
              /\ PIECE_SEQ = IF fresh THEN id ELSE id + 1
              /\ qBoard = << >> /\ qPiece = << >> /\ qHigh = << >> /\ qOver = << >>
              /\ qScore = IF hasLightningInIcons(p.icons)
                          THEN << addUpdater(5, mh + gain, id) >>
                          ELSE << >>
              /\ batch = {}
              /\ steps = 0
              /\ lastOp = "none"
              /\ mounted = TRUE
              /\ taps = noTaps
              /\ clock = noClock
              /\ pure = noCall
              /\ activated = (id :> litPiece(p))
              /\ credited = << >>

Next ==
  \/ \E key \in Keys : handleKey(key)
  \/ handleKeyUp
  \/ \E g \in Gestures : onTouchEnd(g)
  \/ \E btn \in Buttons : onClick(btn)
  \/ startHoldDown
  \/ stopHoldDown
  \/ holdTick
  \/ loop
  \/ Render

Spec == Init /\ [][Next]_vars

(***************************************************************************)
(* Teardown.  React unmounts the component: the cleanup of the frame-loop  *)
(* effect cancels the animation frame and the handlers go with the DOM.    *)
(* No cleanup clears holdTimer.current.  TeardownSpec follows sessions     *)
(* that start on an empty board and may end this way.                      *)
(***************************************************************************)
unmount ==
  /\ mounted
  /\ mounted' = FALSE
  /\ lastOp' = "unmount"
  /\ UNCHANGED << committed, queues, refs, softRef, awardedRef, holdTimer,
                  PIECE_SEQ, stored, mountHigh, batch, steps, clock, pure,
                  taps, history >>

TeardownInit == Init /\ board = emptyBoard

TeardownNext ==
  \/ \E key \in Keys : handleKey(key)
  \/ handleKeyUp
  \/ \E g \in Gestures : onTouchEnd(g)
  \/ \E btn \in Buttons : onClick(btn)
  \/ startHoldDown
  \/ stopHoldDown
  \/ holdTick
  \/ loop
  \/ Render
  \/ unmount

TeardownSpec == TeardownInit /\ [][TeardownNext]_vars


(***************************************************************************)
(* The frame loop with its clock.  Every animation frame runs loop(t): e   *)
(* is the time since the frame before (since page load for the first one). *)
(* TickSpec follows the frames between key presses, button presses and     *)
(* renders; React renders the updates of a frame before the next frame.    *)
(***************************************************************************)
baseInterval == 500
softFloor == 50
Max(a, b) == IF a >= b THEN a ELSE b
\* a faulty variant of interval: the soft-drop modifier is ignored
intervalAlwaysBase(soft) == baseInterval

\* softRef.current ? Math.max(50, baseInterval / 10) : baseInterval
interval(soft) == IF soft THEN Max(softFloor, baseInterval \div 10) ELSE baseInterval

MaxFrames == 4
\* the time of the first frame, and the times between two frames
FirstFrameAt == 600
Elapsed == {20, 30, 450}

\* the body of the if of loop
gravityStep(d) ==
  IF ~collides(boardRef, pieceRef, 1, 0, <<>>)
  THEN [cur EXCEPT !.qPiece = Append(@, rowUpdater), !.op = "fall"]
  ELSE lockAndSpawn(cur, boardRef, pieceRef, 0, mountHigh, d[1], d[2])

frame(e) ==
  /\ mounted
  /\ clock.frames < MaxFrames
  /\ "tick" \notin batch
  /\ LET dt == IF clock.last = 0 THEN 0 ELSE e
         acc == clock.acc + dt
         due == ~overRef /\ acc >= interval(softRef)
     IN  /\ clock' = [last |-> clock.last + e, acc |-> IF due THEN 0 ELSE acc,
                      frames |-> clock.frames + 1, dt |-> dt, stepped |-> due]
         /\ IF due
            THEN /\ \E d \in drawsIf(atRest) : Defer(gravityStep(d))
                 /\ batch' = batch \cup {"tick"}
            ELSE UNCHANGED << committed, queues, refs, awardedRef, PIECE_SEQ,
                              stored, batch, history, lastOp >>
  /\ UNCHANGED << softRef, holdTimer, mountHigh, steps, mounted, pure, taps >>

TickInit == Init /\ board \in {emptyBoard, TowerBoard} /\ piece.key = "O"

\* at most MaxPresses presses and releases are followed between the frames
MaxPresses == 2
TickNext ==
  \/ \E e \in (IF clock.last = 0 THEN {FirstFrameAt} ELSE Elapsed) : frame(e)
  \/ \E key \in {"ArrowDown", "r"} : steps < MaxPresses /\ handleKey(key)
  \/ steps < MaxPresses /\ handleKeyUp
  \/ steps < MaxPresses /\ startHoldDown
  \/ steps < MaxPresses /\ stopHoldDown
  \/ Render

TickSpec == TickInit /\ [][TickNext]_vars

(***************************************************************************)
(* The life of the first piece of a game.  The frame loop never stops, so  *)
(* its gravity steps are not counted; React renders what is queued.        *)
(* FallSpec follows the first piece of a fresh game under gravity, renders *)
(* and up to MaxSteps moves, rotations and restarts, until it is replaced. *)
(***************************************************************************)
FirstId == 1

\* a frame of the loop in which acc >= interval
gravityTick ==
  /\ mounted
  /\ "tick" \notin batch
  /\ ~overRef
  /\ \E d \in drawsIf(atRest) : Defer(gravityStep(d))
  /\ batch' = batch \cup {"tick"}
  /\ UNCHANGED << softRef, holdTimer, mountHigh, steps, aux >>

firstPieceTick == piece.id = FirstId /\ gravityTick

FallInit == Init /\ board = emptyBoard /\ piece.row = 0 /\ piece.id = FirstId

FallNext ==
  \/ firstPieceTick
  \/ \E key \in {"ArrowLeft", "ArrowRight", "ArrowUp", "r"} :
       piece.id = FirstId /\ handleKey(key)
  \/ Render

\* ENABLED <<firstPieceTick>>_vars written out: the guards of the tick (a
\* tick always adds "tick" to batch)
tickEnabled == piece.id = FirstId /\ mounted /\ "tick" \notin batch /\ ~overRef

\* weak fairness of the gravity tick, WF_vars(firstPieceTick), in the form
\* []<>~ENABLED \/ []<>action: the loop re-arms requestAnimationFrame in
\* every frame, so ticks keep occurring
tickFairness == []<>(~tickEnabled) \/ []<><<firstPieceTick>>_vars

FallSpec ==
  FallInit /\ [][FallNext]_vars /\ tickFairness /\ WF_vars(Render)

(***************************************************************************)
(* Touch releases on the playfield with their times.  A release comes wait *)
(* time units after the event before it and has moved by m = (dx, dy) from *)
(* touchStart.current.  TouchSpec follows releases and renders.            *)
(***************************************************************************)
SWIPE == 24
TAP_WINDOW == 200
Abs(x) == IF x < 0 THEN -x ELSE x

\* a faulty variant of isDoubleTap: the end of the window counts as inside
isDoubleTapInclusive(now, last) == now - last <= TAP_WINDOW

\* now - lastTap.current < TAP_WINDOW
isDoubleTap(now, last) == now - last < TAP_WINDOW

\* the branch onTouchEnd takes
gestureOf(dx, dy, now, last) ==
  IF Abs(dx) < SWIPE /\ Abs(dy) < SWIPE
  THEN (IF isDoubleTap(now, last) THEN "doubleTap" ELSE "tap")
  ELSE IF Abs(dx) > Abs(dy)
       THEN (IF dx > 0 THEN "swipeRight" ELSE "swipeLeft")
       ELSE (IF dy > 0 THEN "swipeDown" ELSE "none")

MaxReleases == 3
Waits == {150, 200}
Moves == { << 23, -23 >>, << 24, 0 >>, << -30, 10 >>, << 30, 30 >>, << 10, -30 >> }

touchRelease(wait, m) ==
  /\ mounted
  /\ taps.releases < MaxReleases
  /\ LET now == taps.now + wait
         g == gestureOf(m[1], m[2], now, taps.lastTap)
         isTap == g \in {"tap", "doubleTap"}
     IN  /\ taps' =
              IF gameOver
              THEN [taps EXCEPT !.now = now, !.releases = @ + 1, !.move = m]
              ELSE [now |-> now,
                    lastTap |-> IF isTap THEN now ELSE taps.lastTap,
                    releases |-> taps.releases + 1,
                    move |-> m,
                    times |-> IF isTap THEN Append(taps.times, now) ELSE taps.times,
                    intents |-> IF isTap
                                THEN Append(taps.intents,
                                            IF g = "doubleTap" THEN "hardDrop" ELSE "rotate")
                                ELSE taps.intents]
         /\ \E d \in drawsIf(g = "doubleTap" \/ (g = "swipeDown" /\ atRest)) :
              LET h == IF g = "none" THEN cur ELSE touchEnd(cur, g, d)
              IN  IF h = cur
                  THEN UNCHANGED << committed, queues, refs, awardedRef, PIECE_SEQ,
                                    stored, batch, history, lastOp >>
                  ELSE Commit(h)
  /\ UNCHANGED << softRef, holdTimer, mountHigh, steps, mounted, clock, pure >>

TouchInit == Init /\ board \in {emptyBoard, TowerBoard} /\ piece.key \in {"O", "T"}

TouchNext ==
  \/ \E wait \in Waits : \E m \in Moves : touchRelease(wait, m)
  \/ Render

TouchSpec == TouchInit /\ [][TouchNext]_vars

(***************************************************************************)
(* The pure functions of the module on their own: PureSpec calls each on   *)
(* inputs drawn from bounded sets and records the call in pure, the game   *)
(* standing still in its first render; one call is followed per behaviour. *)
(***************************************************************************)
game == << board, piece, score, high, gameOver, qBoard, qPiece, qScore, qHigh,
           qOver, boardRef, pieceRef, overRef, softRef, awardedRef, holdTimer,
           PIECE_SEQ, stored, mountHigh, batch, steps, mounted, clock, taps, lastOp,
           activated, credited >>

PureInit ==
  /\ Init
  /\ board = emptyBoard /\ piece.key = "I" /\ piece.row = 0 /\ ~litPiece(piece)

\* ---- boards for clearLines: the rows of full are full, those of part hold
\* one cell (row r at column r mod COLS), the others are empty
fullCell == [color |-> "#111", icon |-> STAR]
rowsBoard(full, part) ==
  [r \in 0..(ROWS - 1) |-> [c \in 0..(COLS - 1) |->
     IF r \in full \/ (r \in part /\ c = r % COLS) THEN fullCell ELSE NULL]]
FullRowSets == SUBSET {0, 10, 18, 19}
PartRowSets(full) ==
  { {}, (0..(ROWS - 1)) \ full, {r \in 0..(ROWS - 1) : r + 1 \in full} \ full,
    {r \in 0..(ROWS - 1) : r % 2 = 0} \ full }
ClearBoards ==
  UNION { { rowsBoard(full, part) : part \in PartRowSets(full) } : full \in FullRowSets }

callClearLines ==
  /\ pure = noCall
  /\ \E b \in ClearBoards :
       pure' = [fn |-> "clearLines", board |-> b, out |-> clearLines(b)]
  /\ UNCHANGED game

\* ---- pieces for merge and collides: spawned pieces, as spawned or turned
\* once, moved onto and across the edges of the grid, and the pieces of runTests
turned(p, n) ==
  IF n = 0 THEN p
  ELSE [p EXCEPT !.matrix = rotateMatrixCW(p.matrix), !.icons = rotateIconsCW(p.icons)]
pBottom ==
  [id |-> 0, key |-> "X", color |-> "#fff", matrix |-> Mat(<< <<1>> >>),
   icons |-> Mat(<< <<LIGHTNING>> >>), row |-> ROWS - 1, col |-> 3]
pLeftWall ==
  [id |-> 0, key |-> "X", color |-> "#fff", matrix |-> Mat(<< <<1>> >>),
   icons |-> Mat(<< <<STAR>> >>), row |-> 0, col |-> 0]
p2 ==
  [id |-> 0, key |-> "X", color |-> "#abc", matrix |-> Mat(<< <<1, 1>> >>),
   icons |-> Mat(<< <<STAR, LIGHTNING>> >>), row |-> 18, col |-> 0]
PieceKinds == {"I", "L", "O"}
PieceRows == {-1, 0, 17, 18, 19}
PieceCols == {-2, 0, 3, 8}
TestPieces ==
  { [turned(randomPiece(0, key, lit), n) EXCEPT !.row = row, !.col = col] :
      key \in PieceKinds, lit \in Lits, n \in {0, 1}, row \in PieceRows, col \in PieceCols }
  \cup {pBottom, pLeftWall, p2}
TestBoards == {emptyBoard, NearLineBoard, TowerBoard}

callMerge ==
  /\ pure = noCall
  /\ \E b \in TestBoards : \E p \in TestPieces :
       LET res == mergeOnHeap(b, p)
       IN  pure' = [fn |-> "merge", board |-> b, piece |-> p,
                    out |-> res.out, boardAfter |-> res.board]
  /\ UNCHANGED game

Offsets == {-1, 0, 1}
callCollides ==
  /\ pure = noCall
  /\ \E b \in TestBoards : \E p \in TestPieces :
     \E offR \in Offsets : \E offC \in Offsets :
     \E mat \in {<<>>, rotateMatrixCW(p.matrix)} :
       pure' = [fn |-> "collides", board |-> b, piece |-> p, offR |-> offR,
                offC |-> offC, mat |-> mat, out |-> collides(b, p, offR, offC, mat)]
  /\ UNCHANGED game

\* ---- matrices for the rotations: every 0/1 matrix and every icon matrix
\* of at most MaxSide rows and columns and 2 * MaxSide cells, and the shapes
MaxSide == 3
Dims == {d \in (1..MaxSide) \X (1..MaxSide) : d[1] * d[2] <= 2 * MaxSide}
MatricesOver(vals) ==
  UNION { [0..(d[1] - 1) -> [0..(d[2] - 1) -> vals]] : d \in Dims }
BitMatrices == MatricesOver({0, 1}) \cup {SHAPES[k].matrix : k \in ALL_KEYS}
IconMatrices ==
  MatricesOver({NOICON, STAR, LIGHTNING})
    \cup {randomPiece(0, k, lit).icons : k \in ALL_KEYS, lit \in Lits}

callRotateMatrixCW ==
  /\ pure = noCall
  /\ \E m \in BitMatrices :
       pure' = [fn |-> "rotateMatrixCW", m |-> m, out |-> rotateMatrixCW(m),
                out4 |-> rotateMatrixCW(rotateMatrixCW(rotateMatrixCW(rotateMatrixCW(m))))]
  /\ UNCHANGED game

callRotateIconsCW ==
  /\ pure = noCall
  /\ \E m \in IconMatrices :
       pure' = [fn |-> "rotateIconsCW", m |-> m, out |-> rotateIconsCW(m),
                out4 |-> rotateIconsCW(rotateIconsCW(rotateIconsCW(rotateIconsCW(m))))]
  /\ UNCHANGED game

\* ---- the initial value of high (load-best).  A string is a sequence of
\* characters, a number is num / den or NaN.
Chars == {"0", "5", "-", ".", "a"}
MaxLen == 3
Strings == UNION { [1..n -> Chars] : n \in 0..MaxLen }
NaN == [nan |-> TRUE, num |-> 0, den |-> 1]
num(n, d) == [nan |-> FALSE, num |-> n, den |-> d]
isDigit(ch) == ch \in {"0", "5"}
digit(ch) == IF ch = "5" THEN 5 ELSE 0
RECURSIVE digitsValue(_)
digitsValue(ds) ==
  IF ds = <<>> THEN 0 ELSE 10 * digitsValue(SubSeq(ds, 1, Len(ds) - 1)) + digit(ds[Len(ds)])
RECURSIVE pow10(_)
pow10(n) == IF n = 0 THEN 1 ELSE 10 * pow10(n - 1)

\* Number(str) for a string of Chars: an optional sign, then digits with at
\* most one point and at least one digit; the empty string is 0; all else NaN
Number(str) ==
  LET neg == str # <<>> /\ str[1] = "-"
      body == IF neg THEN Tail(str) ELSE str
      points == {i \in 1..Len(body) : body[i] = "."}
      ds == SelectSeq(body, isDigit)
      fracLen == IF points = {} THEN 0 ELSE Len(body) - (CHOOSE i \in points : TRUE)
      sign == IF neg THEN -1 ELSE 1
  IN  IF str = <<>> THEN num(0, 1)
      ELSE IF /\ Cardinality(points) <= 1
              /\ ds # <<>>
              /\ Len(ds) + Cardinality(points) = Len(body)
           THEN num(sign * digitsValue(ds), pow10(fracLen))
           ELSE NaN

\* the initializer of high; storage.item is the string kept under
\* "tetris_highscore" when storage.present (getItem returns null otherwise),
\* and storage.denied tells that access to localStorage throws
loadBest(storage) ==
  IF storage.denied THEN [threw |-> TRUE, value |-> NaN]
  ELSE LET saved == IF ~storage.present \/ storage.item = <<>> THEN num(0, 1)
                    ELSE Number(storage.item)
       IN  [threw |-> FALSE, value |-> IF ~saved.nan THEN saved ELSE num(0, 1)]

Storages ==
  { [denied |-> FALSE, present |-> TRUE, item |-> i] : i \in Strings }
    \cup { [denied |-> d, present |-> FALSE, item |-> <<>>] : d \in BOOLEAN }

callLoadBest ==
  /\ pure = noCall
  /\ \E st \in Storages :
       pure' = [fn |-> "loadBest", storage |-> st, out |-> loadBest(st)]
  /\ UNCHANGED game

(***************************************************************************)
(* The claims.                                                             *)
(***************************************************************************)
\* C1: in every state with status running the active piece does not collide
\* with the board: collides(board, piece, 0, 0) is false.
C1_ActivePieceNeverCollides ==
  ~gameOver => ~collides(board, piece, 0, 0, <<>>)

\* C2: once status is over, no step that leaves it over changes the board,
\* the active piece or the score (only restart, which ends over, may).
C2_OverIsFrozen ==
  [][(gameOver /\ gameOver') =>
       (board' = board /\ piece' = piece /\ score' = score)]_vars

\* C3: the best score never decreases, in memory or in storage.
C3_BestNeverDecreases ==
  [][high' >= high /\ stored' >= stored]_vars

\* C4: in every settled state (no queued update) best >= score.
C4_BestAtLeastScore ==
  ~Pending => high >= score

\* the piece of the snapshot at its resting row
landedPiece == [pieceRef EXCEPT !.row = @ + dropDistance(boardRef, pieceRef, 0)]
\* the rows of b without an empty cell
fullRows(b) ==
  Cardinality({r \in DOMAIN b : \A c \in DOMAIN b[r] : b[r][c] # NULL})
\* the points the queued score updates add
RECURSIVE sumAdds(_)
sumAdds(q) == IF q = <<>> THEN 0 ELSE Head(q).n + sumAdds(Tail(q))

\* C5: the lightning bonus applied for a piece id is 5, and only for a piece
\* that became active and shows lightning; once nothing is queued, every
\* such piece has been credited (so: exactly 5, never twice, 0 otherwise).
C5_LightningBonusOnce ==
  /\ \A id \in DOMAIN credited :
       id \in DOMAIN activated /\ activated[id] /\ credited[id] = 5
  /\ ~Pending => \A id \in DOMAIN activated : activated[id] => id \in DOMAIN credited

C5_Witness ==
  /\ steps = 3 /\ ~Pending
  /\ piece.id \in DOMAIN credited /\ credited[piece.id] = 5
  /\ piece.matrix # SHAPES[piece.key].matrix

\* C6: a lock adds to the score exactly the number of full rows of the board
\* with the piece merged (one point per row, nothing when no row is full): a
\* key, touch or button lock in the render it causes, a timer lock in the
\* update it queues, which the next render applies unchanged.
C6_LockScoresClearedRows ==
  [][ /\ (lastOp' \in {"lock", "hardDrop"} /\ batch' = {}) =>
           score' = score + sumAdds(qScore) + fullRows(merge(boardRef, landedPiece))
      /\ (lastOp' = "lock" /\ batch' # {}) =>
           sumAdds(qScore') = sumAdds(qScore) + fullRows(merge(boardRef, landedPiece))
      /\ (lastOp' = "render") => score' = score + sumAdds(qScore) ]_vars

C6_Witness ==
  lastOp = "hardDrop" /\ score = 1 /\ high = 1 /\ fullRows(board) = 0

\* the board a lock of the snapshot leaves: the piece merged, full rows removed
postClear == clearLines(merge(boardRef, landedPiece)).board

\* C7: status goes from running to over exactly in a lock whose freshly
\* spawned piece collides with the post-clear board; that lock sets the board
\* to the post-clear board and installs no piece, and a lock whose spawn is
\* free installs the new piece and leaves status running.  Nothing but a
\* lock sets status to over.
C7_OverOnlyFromBlockedSpawn ==
  [][ /\ (lastOp' \in {"lock", "hardDrop"} /\ batch' = {} /\ ~Pending /\ ~gameOver) =>
           \E d \in Draws :
             LET next == randomPiece(PIECE_SEQ, d[1], d[2])
             IN  /\ board' = postClear
                 /\ IF collides(postClear, next, 0, 0, <<>>)
                    THEN gameOver' /\ piece' = piece
                    ELSE ~gameOver' /\ piece' = next
      /\ (lastOp' = "lock" /\ batch' # {}) =>
           \E d \in Draws :
             LET next == randomPiece(PIECE_SEQ, d[1], d[2])
             IN  /\ qBoard' = << postClear >>
                 /\ IF collides(postClear, next, 0, 0, <<>>)
                    THEN qOver' = << TRUE >> /\ qPiece' = qPiece
                    ELSE qOver' = qOver /\ qPiece' = << setValue(next) >>
      /\ (~gameOver /\ gameOver') =>
           (qOver = << TRUE >> \/ lastOp' \in {"lock", "hardDrop"})
      /\ (qOver' = << TRUE >> /\ qOver # << TRUE >>) => lastOp' = "lock" ]_vars

\* a hard drop on the stack ended the game: the piece stays the one dropped
C7_Witness ==
  /\ gameOver /\ lastOp = "hardDrop" /\ steps = 1
  /\ collides(board, piece, 0, 0, <<>>)

\* C8: restart in a settled state with status over yields score 0, the
\* empty board, a piece with a new identifier in its spawn orientation at
\* row 0 and the centred column, and status running; best score, in memory
\* and in storage, is unchanged.
C8_RestartResets ==
  [][ (lastOp' = "restart" /\ gameOver /\ ~Pending) =>
        /\ score' = 0
        /\ board' = emptyBoard
        /\ ~gameOver'
        /\ piece'.row = 0
        /\ piece'.col = (COLS - length(piece'.matrix[0])) \div 2
        /\ piece'.matrix = SHAPES[piece'.key].matrix
        /\ piece'.id \notin DOMAIN activated
        /\ high' = high /\ stored' = stored ]_vars

\* the first piece (id 19) was locked on the stack, which ended the game and
\* drew id 21 for a piece never shown, and restart installed id 23
C8_Witness ==
  /\ lastOp = "restart" /\ steps = 2 /\ ~gameOver
  /\ DOMAIN activated = {19, 23} /\ piece.id = 23

\* C9: a hard drop in a running state locks the piece at its resting row:
\* the landed position does not collide, one row lower does, and the board
\* becomes the post-clear board of the merge at that row.
C9_HardDropLocksAtRest ==
  [][ (lastOp' = "hardDrop" /\ ~gameOver) =>
        /\ ~collides(boardRef, landedPiece, 0, 0, <<>>)
        /\ collides(boardRef, landedPiece, 1, 0, <<>>)
        /\ board' = postClear ]_vars

\* the order in which rotate tries the column offsets
kickOrder == << 0, 1, -1, 2, -2 >>

\* C10: a rotation replaces matrix, icons and column together, by the
\* clockwise-rotated matrix and icons at the first offset of 0, +1, -1, +2, -2
\* that does not collide, and leaves the rest of the piece alone; the square
\* piece is never rotated, and nothing else changes a piece's matrix or icons.
C10_RotateKicks ==
  [][ /\ (lastOp' = "rotate") =>
           LET rot == rotateMatrixCW(pieceRef.matrix)
               latest == applyPieceQueue(qPiece, piece)
           IN  /\ pieceRef.key # "O"
               /\ \E i \in 1..Len(kickOrder) :
                    /\ ~collides(boardRef, pieceRef, 0, kickOrder[i], rot)
                    /\ \A j \in 1..(i - 1) :
                         collides(boardRef, pieceRef, 0, kickOrder[j], rot)
                    /\ piece' = [latest EXCEPT !.matrix = rot,
                                               !.icons = rotateIconsCW(pieceRef.icons),
                                               !.col = @ + kickOrder[i]]
      /\ (piece'.id = piece.id
            /\ (piece'.matrix # piece.matrix \/ piece'.icons # piece.icons)) =>
           lastOp' = "rotate" ]_vars

\* the L on the stack: offsets 0, +1 and -1 collide, +2 is taken
C10_Witness ==
  /\ lastOp = "rotate" /\ steps = 1 /\ piece.key = "L"
  /\ piece.col = spawnCol(SHAPES["L"].matrix) + 2

\* the piece as the queued updates leave it
latestPiece == applyPieceQueue(qPiece, piece)

\* C11: move-left / move-right queues a column change of -1 / +1 exactly when
\* the piece shifted by one column does not collide with the board, and
\* nothing otherwise; a move changes the column of the piece by exactly that
\* and leaves row, matrix, icons, identifier, board, score and status alone,
\* and nothing else changes the column of a piece whose matrix stays.
C11_MoveShiftsColumn ==
  /\ [](\A d \in {-1, 1} :
          LET h == IF d = -1 THEN moveLeft(cur) ELSE moveRight(cur)
          IN  IF collides(board, piece, 0, d, <<>>)
              THEN h = cur
              ELSE h = [cur EXCEPT !.qPiece = Append(@, colUpdater(d)), !.op = "move"])
  /\ [][ /\ (lastOp' = "move") =>
              \E d \in {-1, 1} :
                /\ ~collides(board, piece, 0, d, <<>>)
                /\ piece' = [latestPiece EXCEPT !.col = @ + d]
                /\ ~Pending =>
                     (board' = board /\ score' = score /\ gameOver' = gameOver)
         /\ (piece'.id = piece.id /\ piece'.col # piece.col
               /\ piece'.matrix = piece.matrix) => lastOp' = "move" ]_vars

C11_Witness ==
  /\ lastOp = "move" /\ steps = 1
  /\ piece.col = spawnCol(piece.matrix) - 1 /\ piece.row > 0

\* C19: a soft-drop step (key, swipe or hold timer) moves the piece down by
\* exactly one row, leaving column, matrix, board and score alone, when the
\* position one row down is free; otherwise it locks the piece at its
\* current row on the current board.
C19_SoftDropStep ==
  [][ /\ (lastOp' = "fall" /\ batch' = {}) =>
           /\ ~collides(board, piece, 1, 0, <<>>)
           /\ piece' = [latestPiece EXCEPT !.row = @ + 1]
           /\ ~Pending => (board' = board /\ score' = score /\ gameOver' = gameOver)
      /\ (lastOp' = "fall" /\ "hold" \in batch' /\ "hold" \notin batch) =>
           /\ ~collides(board, piece, 1, 0, <<>>)
           /\ qPiece' = Append(qPiece, rowUpdater)
           /\ qBoard' = qBoard /\ qScore' = qScore /\ qOver' = qOver
      /\ (lastOp' = "lock" /\ batch' = {}) =>
           /\ collides(board, piece, 1, 0, <<>>)
           /\ board' = clearLines(merge(board, piece)).board
      /\ (lastOp' = "lock" /\ "hold" \in batch' /\ "hold" \notin batch) =>
           /\ collides(board, piece, 1, 0, <<>>)
           /\ qBoard' = << clearLines(merge(board, piece)).board >> ]_vars

\* a soft drop by key or swipe that locked the piece where it rested
C19_Witness ==
  /\ lastOp = "lock" /\ batch = {} /\ steps = 1 /\ ~gameOver
  /\ fullRows(board) = 0 /\ score = 1

\* the rows of b in which every cell is occupied
fullRowsOf(b) == {r \in DOMAIN b : \A c \in DOMAIN b[r] : b[r][c] # NULL}
\* how many rows of b above row r are not full
keptAbove(b, r) == Cardinality({q \in DOMAIN b : q < r /\ q \notin fullRowsOf(b)})

\* C12: clearLines removes exactly the full rows, returns their number,
\* puts that many empty rows on top, keeps the other rows unchanged and in
\* order, and returns 20 rows of 10 cells (the same board when no row is full).
C12_ClearLinesCompacts ==
  pure.fn = "clearLines" =>
    LET b == pure.board
        o == pure.out
        n == Cardinality(fullRowsOf(b))
    IN  /\ o.cleared = n
        /\ DOMAIN o.board = 0..(ROWS - 1)
        /\ \A r \in 0..(ROWS - 1) : DOMAIN o.board[r] = 0..(COLS - 1)
        /\ \A r \in 0..(n - 1) : \A c \in 0..(COLS - 1) : o.board[r][c] = NULL
        /\ \A r \in (0..(ROWS - 1)) \ fullRowsOf(b) : o.board[n + keptAbove(b, r)] = b[r]
        /\ n = 0 => o.board = b

C12_Witness ==
  /\ pure.fn = "clearLines" /\ pure.out.cleared = 3
  /\ fullRowsOf(pure.board) = {0, 10, 19}
  /\ pure.out.board[19] = pure.board[18] /\ pure.out.board[19] # emptyRow

\* C13 as stated: with exactly one full row, at index i, clearLines returns
\* cleared = 1 and row i of the returned board is entirely empty.
C13_ClearedRowIndexEmpty ==
  (pure.fn = "clearLines" /\ Cardinality(fullRowsOf(pure.board)) = 1) =>
    LET i == CHOOSE r \in fullRowsOf(pure.board) : TRUE
    IN  /\ pure.out.cleared = 1
        /\ \A c \in 0..(COLS - 1) : pure.out.board[i][c] = NULL

\* C13 amended: with exactly one full row, at index i, clearLines returns
\* cleared = 1, row 0 of the returned board is entirely empty, rows 1..i
\* are the input's rows 0..i-1 and the rows below i are unchanged (so row i is
\* empty exactly when i = 0 or the input's row i-1 is empty).
C13_SingleRowShiftsDown ==
  (pure.fn = "clearLines" /\ Cardinality(fullRowsOf(pure.board)) = 1) =>
    LET i == CHOOSE r \in fullRowsOf(pure.board) : TRUE
        b == pure.board
        o == pure.out
    IN  /\ o.cleared = 1
        /\ \A c \in 0..(COLS - 1) : o.board[0][c] = NULL
        /\ \A r \in 1..i : o.board[r] = b[r - 1]
        /\ \A r \in (i + 1)..(ROWS - 1) : o.board[r] = b[r]

\* the only full row is row 19 and row 18 holds a cell: row 19 of the result
\* is the input's row 18
C13_Witness ==
  /\ pure.fn = "clearLines" /\ fullRowsOf(pure.board) = {19}
  /\ pure.board[18] # emptyRow /\ pure.out.board[19] = pure.board[18]
  /\ pure.out.cleared = 1

\* the set cells of matrix m
setCells(m) == {rc \in (DOMAIN m) \X (DOMAIN m[0]) : m[rc[1]][rc[2]] # 0}
inGrid(r, c) == r \in 0..(ROWS - 1) /\ c \in 0..(COLS - 1)

\* C14: merge returns a 20x10 board in which every in-bounds cell under a set
\* cell of the piece's matrix holds the piece's colour and that cell's icon and
\* every other cell equals the input's cell; nothing is written outside the
\* grid and the board passed in is the same after the call.
C14_MergeWritesPieceCells ==
  pure.fn = "merge" =>
    LET b == pure.board
        p == pure.piece
        o == pure.out
        under(r, c) == {rc \in setCells(p.matrix) : p.row + rc[1] = r /\ p.col + rc[2] = c}
    IN  /\ DOMAIN o = 0..(ROWS - 1)
        /\ \A r \in 0..(ROWS - 1) : DOMAIN o[r] = 0..(COLS - 1)
        /\ \A r \in 0..(ROWS - 1) : \A c \in 0..(COLS - 1) :
             IF under(r, c) = {} THEN o[r][c] = b[r][c]
             ELSE \A rc \in under(r, c) :
                    o[r][c] = [color |-> p.color, icon |-> p.icons[rc[1]][rc[2]]]
        /\ pure.boardAfter = b
        /\ o = merge(b, p)

\* a piece partly outside the grid merged over occupied cells
C14_Witness ==
  /\ pure.fn = "merge" /\ pure.out # pure.board
  /\ \E rc \in setCells(pure.piece.matrix) :
       ~inGrid(pure.piece.row + rc[1], pure.piece.col + rc[2])
  /\ \E rc \in setCells(pure.piece.matrix) :
       /\ inGrid(pure.piece.row + rc[1], pure.piece.col + rc[2])
       /\ pure.board[pure.piece.row + rc[1]][pure.piece.col + rc[2]] # NULL
       /\ pure.out[pure.piece.row + rc[1]][pure.piece.col + rc[2]].icon = LIGHTNING

\* C15: collides is true exactly when some set cell of the matrix in force
\* (the override when given), placed at anchor + cell offset + deltas, lies
\* outside rows 0..19 or columns 0..9 or on an occupied cell of the board.
C15_CollidesExactly ==
  pure.fn = "collides" =>
    LET m == IF pure.mat = <<>> THEN pure.piece.matrix ELSE pure.mat
        targets == { << pure.piece.row + rc[1] + pure.offR,
                        pure.piece.col + rc[2] + pure.offC >> : rc \in setCells(m) }
        free == {t \in (0..(ROWS - 1)) \X (0..(COLS - 1)) : pure.board[t[1]][t[2]] = NULL}
    IN  pure.out <=> ~(targets \subseteq free)

\* an override matrix that hits an occupied cell inside the grid where the
\* piece's own matrix is clear
C15_Witness ==
  /\ pure.fn = "collides" /\ pure.mat # <<>> /\ pure.out
  /\ \A rc \in setCells(pure.mat) :
       inGrid(pure.piece.row + rc[1] + pure.offR, pure.piece.col + rc[2] + pure.offC)
  /\ ~collides(pure.board, pure.piece, pure.offR, pure.offC, <<>>)

\* C16: one clockwise rotation of an R x C matrix gives a C x R matrix with
\* the source cell (r, c) at (c, R-1-r); four rotations in a row give back the
\* original; rotateIconsCW maps the icon matrix the same way.
C16_RotationMapping ==
  pure.fn \in {"rotateMatrixCW", "rotateIconsCW"} =>
    LET m == pure.m
        R == length(m)
        C == length(m[0])
    IN  /\ DOMAIN pure.out = 0..(C - 1)
        /\ \A i \in 0..(C - 1) : DOMAIN pure.out[i] = 0..(R - 1)
        /\ \A r \in 0..(R - 1) : \A c \in 0..(C - 1) : pure.out[c][R - 1 - r] = m[r][c]
        /\ pure.out4 = m

\* the matrix of runTests, [[1,0,0],[1,1,1]], turned into 3 rows of 2
C16_Witness ==
  /\ pure.fn = "rotateMatrixCW"
  /\ pure.m = Mat(<< <<1, 0, 0>>, <<1, 1, 1>> >>)
  /\ pure.out = Mat(<< <<1, 1>>, <<1, 0>>, <<1, 0>> >>)

\* C18: load-best never fails and yields a non-negative integer whatever is
\* stored and whether or not the storage can be read.
C18_LoadBestNonNegativeInteger ==
  pure.fn = "loadBest" =>
    /\ ~pure.out.threw
    /\ ~pure.out.value.nan
    /\ pure.out.value.num >= 0
    /\ pure.out.value.num % pure.out.value.den = 0

\* C17: the hold timer is started by a press and cancelled by a release, and
\* a hold-timer soft-drop step is only ever executed while the component is
\* mounted and the timer is on: none after a release, none after teardown.
holdStep == steps' = steps + 1 /\ "hold" \in batch' /\ (~mounted \/ "hold" \notin batch)
C17_HoldTimerCancelled ==
  [][ /\ holdStep => (mounted /\ holdTimer.on)
      /\ (lastOp' = "ref" /\ softRef') => holdTimer'.on
      /\ ~mounted' => (mounted \/ (PIECE_SEQ' = PIECE_SEQ /\ stored' = stored)) ]_vars

\* C20: a frame performs a gravity step exactly when the game is running and
\* the time accumulated since the last step (or the start) has reached the
\* threshold, 500, or 50 while the soft-drop modifier is set; such a frame
\* performs one gravity step and resets the accumulator to 0 whatever the
\* elapsed time; any other frame only adds its elapsed time to the
\* accumulator.
C20_TickDriver ==
  [][ clock' # clock =>
        LET dt == clock'.dt
            acc == clock.acc + dt
            threshold == IF softRef THEN 50 ELSE 500
        IN  /\ dt = IF clock.last = 0 THEN 0 ELSE clock'.last - clock.last
            /\ clock'.stepped <=> (~gameOver /\ acc >= threshold)
            /\ clock'.stepped =>
                 /\ clock'.acc = 0
                 /\ IF ~collides(board, piece, 1, 0, <<>>)
                    THEN /\ qPiece' = Append(qPiece, rowUpdater)
                         /\ qBoard' = qBoard /\ qOver' = qOver /\ qScore' = qScore
                    ELSE /\ qBoard' = Append(qBoard, clearLines(merge(board, piece)).board)
                         /\ qPiece' # qPiece \/ qOver' # qOver
            /\ ~clock'.stepped =>
                 /\ clock'.acc = acc
                 /\ UNCHANGED << committed, queues >> ]_vars

\* with the modifier set, 20 and then 30 time units add up to the threshold
\* of 50 and the frame makes the piece fall
C20_Witness ==
  /\ clock.stepped /\ softRef /\ clock.dt = 30 /\ clock.last = FirstFrameAt + 20 + 30
  /\ clock.frames = 3 /\ lastOp = "fall" /\ qPiece # <<>>

\* C21 as stated: of any two successive taps less than 200 time units apart
\* the first triggers rotate and the second hard-drop.
C21_TwoTapsRotateThenDrop ==
  \A i \in 2..Len(taps.times) :
    taps.times[i] - taps.times[i - 1] < 200 =>
      taps.intents[i - 1] = "rotate" /\ taps.intents[i] = "hardDrop"

\* C21 amended: while running, a touch release that moved less than 24 on
\* both axes is a tap; a tap less than 200 time units after the tap before it
\* triggers hard-drop (the piece is locked) and no rotate, any other tap
\* triggers rotate and no hard-drop; a release triggers at most one intent.
\* Two taps within the window are never two rotates, and they are a rotate
\* followed by a hard-drop when the first is not itself within the window of
\* the tap before it (otherwise both are hard-drops).
C21_TapOrDoubleTap ==
  [][ (taps'.releases = taps.releases + 1 /\ ~gameOver) =>
        LET small == Abs(taps'.move[1]) < 24 /\ Abs(taps'.move[2]) < 24
            n == Len(taps'.times)
            within == n > 1 /\ taps'.times[n] - taps'.times[n - 1] < 200
        IN  /\ small <=> (n = Len(taps.times) + 1 /\ taps'.times[n] = taps'.now)
            /\ ~small =>
                 /\ taps'.times = taps.times /\ taps'.intents = taps.intents
                 /\ lastOp' \in {"move", "fall", "lock"} \/ UNCHANGED << committed, lastOp >>
            /\ (small /\ within) =>
                 /\ taps'.intents[n] = "hardDrop"
                 /\ taps'.intents[n - 1] =
                      IF n > 2 /\ taps'.times[n - 1] - taps'.times[n - 2] < 200
                      THEN "hardDrop" ELSE "rotate"
                 /\ lastOp' = "hardDrop" /\ (piece'.id # piece.id \/ gameOver')
            /\ (small /\ ~within) =>
                 /\ taps'.intents[n] = "rotate"
                 /\ \/ lastOp' = "rotate" /\ piece'.id = piece.id /\ piece'.row = piece.row
                                        /\ board' = board /\ piece'.matrix # piece.matrix
                    \/ UNCHANGED << committed, lastOp >> ]_vars

\* three taps 150 apart: a rotate, a hard drop, and a hard drop of the next
\* piece
C21_Witness ==
  /\ taps.intents = << "rotate", "hardDrop", "hardDrop" >>
  /\ taps.times = << StartNow + 150, StartNow + 300, StartNow + 450 >>
  /\ lastOp = "hardDrop" /\ ~gameOver

\* C22: lock-and-spawn is never executed twice for the same piece.  A lock
\* that a timer callback has queued (setBoard is only called by a lock or a
\* restart, and a restart is rendered at once) leaves the refs on the locked
\* piece until the render: no handler executes lock-and-spawn in between.
C22_LockedAtMostOnce ==
  [][ (steps' = steps + 1 /\ lastOp' \in {"lock", "hardDrop"}) => qBoard = <<>> ]_vars

\* C23: the score is a non-negative integer; a restart sets it to 0 and every
\* other step leaves it unchanged or increases it.
C23_ScoreMonotone ==
  /\ [](score \in Nat)
  /\ [][ IF lastOp' = "restart" /\ steps' = steps + 1
         THEN score' = 0
         ELSE score' >= score ]_vars

\* a restart of a game whose score was positive
C23_Witness == lastOp = "restart" /\ score = 0 /\ high >= 2 /\ steps = 3

\* C24: the active piece's bitmask and icon matrix have the same dimensions,
\* a cell has an icon exactly when its bit is set, and 4 cells are set.
C24_IconsMatchMatrix ==
  /\ DOMAIN piece.icons = DOMAIN piece.matrix
  /\ \A r \in DOMAIN piece.matrix :
       /\ DOMAIN piece.icons[r] = DOMAIN piece.matrix[r]
       /\ DOMAIN piece.matrix[r] = DOMAIN piece.matrix[0]
       /\ \A c \in DOMAIN piece.matrix[r] :
            (piece.icons[r][c] # NOICON) <=> (piece.matrix[r][c] # 0)
  /\ Cardinality(setCells(piece.matrix)) = 4

\* an L turned once and then moved
C24_Witness ==
  /\ piece.key = "L" /\ piece.matrix = rotateMatrixCW(SHAPES["L"].matrix)
  /\ lastOp = "move" /\ steps = 2

\* the number of occupied cells of b
occupied(b) ==
  Cardinality({rc \in (DOMAIN b) \X (DOMAIN b[0]) : b[rc[1]][rc[2]] # NULL})

\* C25: the board, and every board queued by setBoard, has no fully occupied
\* row; the board only changes in a step that locks a piece or restarts, or
\* in a render of the board a timer's lock has queued.
C25_NoFullRow ==
  /\ [](/\ fullRowsOf(board) = {}
        /\ \A i \in DOMAIN qBoard : fullRowsOf(qBoard[i]) = {})
  /\ [][ board' # board =>
           \/ lastOp' \in {"lock", "hardDrop", "restart"}
           \/ qBoard # <<>> /\ board' = Last(qBoard) ]_vars

\* an I dropped into the gap of the bottom row: the row is cleared and the
\* two cells that stood on it remain
C25_Witness ==
  /\ lastOp = "hardDrop" /\ steps = 1 /\ occupied(board) = 2
  /\ board[ROWS - 1] # emptyRow

\* C27: every lock adds exactly 4 occupied cells to the board and every row
\* it clears removes exactly 10, so that the occupied cells are 4 x pieces
\* locked - 10 x rows cleared: a step that executes a lock queues or installs
\* a board with 4 - 10 x (rows cleared) more occupied cells than the board
\* the lock was given.
C27_LockAddsFourCells ==
  [][ (steps' = steps + 1 /\ lastOp' \in {"lock", "hardDrop"}) =>
        \E k \in 0..4 :
          LET after == IF batch' = {} THEN board' ELSE Last(qBoard')
          IN  occupied(after) = occupied(boardRef) + 4 - 10 * k ]_vars

\* C26: while a piece is the active piece its row never decreases, and while
\* the game is running and gravity ticks keep occurring the first piece is
\* eventually locked or replaced by a restart, whatever moves and rotations
\* come in between.
C26_PieceEventuallyLocked ==
  /\ [][ piece'.id = piece.id => piece'.row >= piece.row ]_vars
  /\ (piece.id = FirstId /\ ~gameOver) ~> (piece.id # FirstId \/ gameOver)

\* the first piece has been locked on the floor after three moves or
\* rotations and the lock has been rendered
C26_Witness ==
  /\ piece.id # FirstId /\ ~gameOver /\ steps = 3 /\ occupied(board) = 4
  /\ lastOp = "render" /\ board[ROWS - 1] # emptyRow

PureNext ==
  \/ callClearLines
  \/ callMerge
  \/ callCollides
  \/ callRotateMatrixCW
  \/ callRotateIconsCW
  \/ callLoadBest

PureSpec == PureInit /\ [][PureNext]_vars

====
